---------------------------- MODULE Spec2Model ----------------------------
(***************************************************************************)
(* Model of the image-to-PDF converter (src/src/image_to_pdf/converter.py, *)
(* its command line src/src/image_to_pdf/cli.py) and of the script kept    *)
(* beside the package (src/image_to_pdf_converter.py).                     *)
(*                                                                         *)
(* SpecFind, SpecConvert and SpecResize are calls of find_images and of    *)
(* convert_to_pdf, Spec is a call of run with its prompts, SpecCli a run   *)
(* of cli.main and SpecScript a run of the script.                         *)
(*                                                                         *)
(* Strings are sequences of one-character strings, so that suffix tests,   *)
(* case folding, path joining and lexicographic sorting are computed the   *)
(* way pathlib and sorted() compute them.  The file system is a function   *)
(* from canonical absolute paths to entries.  The environment has no       *)
(* symbolic links and is not modified by anything but the program.         *)
(***************************************************************************)
EXTENDS Integers, Sequences, FiniteSets, TLC

VARIABLES
    fs,             \* the file system: canonical path -> entry
    fs0,            \* the file system when the operation under study was called
    pc,             \* position of the program
    find_arg,       \* find_images: the argument directory_or_files
    found,          \* find_images: the returned list
    cv_images,      \* convert_to_pdf: the argument images
    cv_out,         \* convert_to_pdf: the argument output_path
    max_size,       \* convert_to_pdf: the argument max_size
    output_path,    \* convert_to_pdf: the local output_path (a Path)
    pdf_images,     \* convert_to_pdf: the accumulated pages
    idx,            \* convert_to_pdf: 1-based position of the loop
    result,         \* convert_to_pdf: what the call returned / printed / raised
    run_inputs,     \* run: the argument input_paths
    run_out,        \* run: the argument output_path (None, or a string)
    images,         \* run: the located images
    order_numbers,  \* _get_custom_order: the numbers parsed from the entry
    candidate,      \* _get_custom_order: ordered_images, shown for confirmation
    confirm,        \* _get_custom_order: the answer to the confirmation, stripped
    message,        \* the last line printed by a prompt loop
    ordered_images, \* run: the list returned by get_user_ordering_preference
    run_output,     \* run: the local output_path
    run_result,     \* run: what the call returned or raised
    calls,          \* run: how many times it has called convert_to_pdf
    argv,           \* entry point: the positional inputs and the -o option
    typed_input,    \* entry point: the answer to the prompt for the input path
    typed_output,   \* entry point: the answer to the prompt for the output name
    exit_code       \* entry point: the exit status of the process, -1 while it runs

findVars == <<find_arg, found>>
cvVars == <<cv_images, cv_out, max_size, output_path, pdf_images, idx, result>>
runVars == <<run_inputs, run_out, images, order_numbers, candidate, confirm, message,
             ordered_images, run_output, run_result, calls>>

entryVars == <<argv, typed_input, typed_output, exit_code>>

vars == <<fs, fs0, pc, findVars, cvVars, runVars, entryVars>>

---------------------------------------------------------------------------
(* Characters and strings *)

LowerChars == <<"a","b","c","d","e","f","g","h","i","j","k","l","m",
                "n","o","p","q","r","s","t","u","v","w","x","y","z">>
UpperChars == <<"A","B","C","D","E","F","G","H","I","J","K","L","M",
                "N","O","P","Q","R","S","T","U","V","W","X","Y","Z">>
DigitChars == <<"0","1","2","3","4","5","6","7","8","9">>

IsIn(c, table) == \E i \in DOMAIN table : table[i] = c
IndexIn(c, table) == CHOOSE i \in DOMAIN table : table[i] = c

\* ord(c) for the characters the model uses
Code(c) ==
    IF IsIn(c, LowerChars) THEN 96 + IndexIn(c, LowerChars)
    ELSE IF IsIn(c, UpperChars) THEN 64 + IndexIn(c, UpperChars)
    ELSE IF IsIn(c, DigitChars) THEN 47 + IndexIn(c, DigitChars)
    ELSE IF c = " " THEN 32
    ELSE IF c = "+" THEN 43
    ELSE IF c = "-" THEN 45
    ELSE IF c = "." THEN 46
    ELSE IF c = "/" THEN 47
    ELSE 95

\* str.lower(), one character
LowerChar(c) == IF IsIn(c, UpperChars) THEN LowerChars[IndexIn(c, UpperChars)] ELSE c

\* str.lower()
Lower(s) == [i \in 1..Len(s) |-> LowerChar(s[i])]

\* s < t for Python strings: by code point, a proper prefix first
StrLess(s, t) ==
    \E k \in 1..(Len(t)) :
        /\ k <= Len(s) + 1
        /\ \A j \in 1..(k-1) : s[j] = t[j]
        /\ \/ k = Len(s) + 1
           \/ Code(s[k]) < Code(t[k])

\* str.endswith
EndsWith(s, t) ==
    /\ Len(t) <= Len(s)
    /\ SubSeq(s, Len(s) - Len(t) + 1, Len(s)) = t

\* str.rfind(c), 1-based; 0 when c does not occur
RFind(s, c) ==
    IF \E i \in 1..Len(s) : s[i] = c
    THEN CHOOSE i \in 1..Len(s) : s[i] = c /\ \A j \in (i+1)..Len(s) : s[j] # c
    ELSE 0

\* str.split("/"): the components between the separators, empty ones included
RECURSIVE SplitSlash(_)
SplitSlash(s) ==
    LET i == RFind(s, "/") IN
    IF i = 0 THEN <<s>>
    ELSE Append(SplitSlash(SubSeq(s, 1, i-1)), SubSeq(s, i+1, Len(s)))

\* "/".join(parts)
RECURSIVE JoinSlash(_)
JoinSlash(parts) ==
    IF parts = <<>> THEN <<>>
    ELSE IF Len(parts) = 1 THEN parts[1]
    ELSE JoinSlash(SubSeq(parts, 1, Len(parts)-1)) \o <<"/">> \o parts[Len(parts)]

\* sorted(list of str): insertion of each element into the sorted prefix
RECURSIVE InsertSorted(_, _)
InsertSorted(s, sortedList) ==
    IF sortedList = <<>> THEN <<s>>
    ELSE IF StrLess(s, Head(sortedList)) THEN <<s>> \o sortedList
    ELSE <<Head(sortedList)>> \o InsertSorted(s, Tail(sortedList))

RECURSIVE Sorted(_)
Sorted(list) ==
    IF list = <<>> THEN <<>>
    ELSE InsertSorted(list[Len(list)], Sorted(SubSeq(list, 1, Len(list)-1)))

\* the elements of a list, as a set
Range(list) == {list[i] : i \in DOMAIN list}

\* list(some_set): the elements in some order (set iteration order is arbitrary)
RECURSIVE SetToSeq(_)
SetToSeq(S) ==
    IF S = {} THEN <<>>
    ELSE LET x == CHOOSE y \in S : TRUE IN <<x>> \o SetToSeq(S \ {x})

---------------------------------------------------------------------------
(* pathlib: a Path is its normalised string *)

\* the process's working directory, against which relative paths are resolved
Cwd == <<"/", "d">>

IsAbsolute(s) == s # <<>> /\ s[1] = "/"

\* the components of a path string that pathlib keeps ("" and "." are dropped)
KeptParts(s) == SelectSeq(SplitSlash(s), LAMBDA part : part # <<>> /\ part # <<".">>)

\* Path(s): "a//b", "a/./b" and "a/b/" all become "a/b"; "" becomes "."
PathOf(s) ==
    IF IsAbsolute(s) THEN <<"/">> \o JoinSlash(KeptParts(s))
    ELSE IF KeptParts(s) = <<>> THEN <<".">>
    ELSE JoinSlash(KeptParts(s))

\* Path.name: the last component; empty for "." and "/"
Name(p) ==
    IF p = <<".">> \/ p = <<"/">> THEN <<>>
    ELSE SubSeq(p, RFind(p, "/") + 1, Len(p))

\* Path.parent
Parent(p) ==
    LET i == RFind(p, "/") IN
    IF p = <<"/">> THEN p
    ELSE IF i = 0 THEN <<".">>
    ELSE IF i = 1 THEN <<"/">>
    ELSE SubSeq(p, 1, i - 1)

\* Path.suffix: from the last dot of the name, unless that dot is the first or
\* the last character of the name
Suffix(p) ==
    LET name == Name(p)
        i == RFind(name, ".")
    IN  IF 1 < i /\ i < Len(name) THEN SubSeq(name, i, Len(name)) ELSE <<>>

\* Path.with_suffix(suffix) is defined for paths with a non-empty name and
\* raises ValueError for the others
HasName(p) == Name(p) # <<>>

\* Path.with_suffix(suffix): the old suffix is removed, the new one added
WithSuffix(p, suffix) ==
    LET name == Name(p)
        old == Suffix(p)
        stem == SubSeq(name, 1, Len(name) - Len(old))
    IN  SubSeq(p, 1, Len(p) - Len(name)) \o stem \o suffix

\* Path / name
JoinPath(p, name) ==
    IF p = <<"/">> THEN p \o name
    ELSE IF p = <<".">> THEN name
    ELSE p \o <<"/">> \o name

\* ".." removes the component before it
RECURSIVE DropDotDot(_)
DropDotDot(parts) ==
    IF parts = <<>> THEN <<>>
    ELSE LET front == DropDotDot(SubSeq(parts, 1, Len(parts) - 1))
             last == parts[Len(parts)]
         IN  IF last = <<".", ".">>
             THEN (IF front = <<>> THEN <<>> ELSE SubSeq(front, 1, Len(front) - 1))
             ELSE Append(front, last)

\* Path.resolve() where there are no symbolic links: the absolute path with
\* "." and ".." removed.  The operating system finds a file by this path.
Resolve(p) ==
    LET abs == IF IsAbsolute(p) THEN p ELSE JoinPath(Cwd, p)
    IN  <<"/">> \o JoinSlash(DropDotDot(KeptParts(abs)))

---------------------------------------------------------------------------
(* The file system *)

Exists(p) == Resolve(p) \in DOMAIN fs

\* Path.is_file()
IsFile(p) == Exists(p) /\ fs[Resolve(p)].kind = "file"

\* Path.is_dir()
IsDir(p) == Exists(p) /\ fs[Resolve(p)].kind = "dir"

\* Path.iterdir(): the directory's immediate entries as p / name, in the order
\* the operating system lists them
IterDir(p) ==
    SetToSeq({JoinPath(p, Name(q)) :
                q \in {r \in DOMAIN fs : r # Resolve(p) /\ Parent(r) = Resolve(p)}})

---------------------------------------------------------------------------
(* ImageToPDFConverter.__init__ *)

supported_formats ==
    { <<".","j","p","g">>, <<".","j","p","e","g">>, <<".","p","n","g">>,
      <<".","w","e","b","p">>, <<".","h","e","i","c">>, <<".","h","e","i","f">>,
      <<".","b","m","p">>, <<".","t","i","f","f">>, <<".","t","i","f">> }

---------------------------------------------------------------------------
(* ImageToPDFConverter.find_images *)

\* faulty variant of IsSupportedFile: the suffix is compared without .lower()
IsSupportedFileCaseSensitive(p) == IsFile(p) /\ Suffix(p) \in supported_formats

\* file.is_file() and file.suffix.lower() in self.supported_formats
IsSupportedFile(p) == IsFile(p) /\ Lower(Suffix(p)) \in supported_formats

\* the images a directory contributes: one per immediate entry that passes
RECURSIVE ScanEntries(_)
ScanEntries(entries) ==
    IF entries = <<>> THEN <<>>
    ELSE (IF IsSupportedFile(Head(entries)) THEN <<Resolve(Head(entries))>> ELSE <<>>)
         \o ScanEntries(Tail(entries))

\* the branch for a single str or Path
FindSingle(arg) ==
    LET path == PathOf(arg) IN
    IF IsDir(path) THEN ScanEntries(IterDir(path))
    ELSE IF IsFile(path)
         THEN (IF Lower(Suffix(path)) \in supported_formats THEN <<Resolve(path)>> ELSE <<>>)
         ELSE <<>>

\* the body of the loop over a list: what one item appends
FindItem(item) ==
    LET item_path == PathOf(item) IN
    IF IsFile(item_path)
    THEN (IF Lower(Suffix(item_path)) \in supported_formats
          THEN <<Resolve(item_path)>> ELSE <<>>)
    ELSE IF IsDir(item_path) THEN ScanEntries(IterDir(item_path))
    ELSE <<>>

\* the branch for a list: every item appends to the same list
RECURSIVE FindList(_)
FindList(items) ==
    IF items = <<>> THEN <<>>
    ELSE FindItem(Head(items)) \o FindList(Tail(items))

\* find_images(directory_or_files); the argument is tagged with its type
find_images(arg) ==
    IF arg.single THEN Sorted(FindSingle(arg.path)) ELSE Sorted(FindList(arg.items))

---------------------------------------------------------------------------
(* The files and directories of the modelled environment *)

Root == <<"/">>
DirD == <<"/","d">>
DirS == <<"/","d","/","s">>
DirK == <<"/","d","/","k",".","p","n","g">>
FileA == <<"/","d","/","a",".","p","n","g">>
FileB == <<"/","d","/","b",".","J","P","G">>
FileC == <<"/","d","/","c",".","t","x","t">>
FileH == <<"/","d","/",".","p","n","g">>
FileZ == <<"/","d","/","s","/","z",".","p","n","g">>

\* an entry of the file system: a directory, or a file and what it holds
DirEntry(writable) ==
    [kind |-> "dir", access |-> writable, type |-> "none", id |-> 0, mode |-> "none",
     size |-> <<0, 0>>, pages |-> <<>>]
SizedImage(n, mode, width, height) ==
    [kind |-> "file", access |-> TRUE, type |-> "image", id |-> n, mode |-> mode,
     size |-> <<width, height>>, pages |-> <<>>]
ImageEntry(n, mode, readable) ==
    [kind |-> "file", access |-> readable, type |-> "image", id |-> n, mode |-> mode,
     size |-> <<100, 100>>, pages |-> <<>>]
OtherEntry ==
    [kind |-> "file", access |-> TRUE, type |-> "other", id |-> 0, mode |-> "none",
     size |-> <<0, 0>>, pages |-> <<>>]
PdfEntry(pages) ==
    [kind |-> "file", access |-> TRUE, type |-> "pdf", id |-> 0, mode |-> "none",
     size |-> <<0, 0>>, pages |-> pages]

\* the file system holding the given (path, entry) pairs
FsOf(pairs) ==
    [p \in {pair[1] : pair \in pairs} |-> (CHOOSE pair \in pairs : pair[1] = p)[2]]

\* what may lie in the directory /d, each present or not
OptionalEntries ==
    { <<FileA, ImageEntry(1, "RGB", TRUE)>>,
      <<FileB, ImageEntry(2, "RGBA", TRUE)>>,
      <<FileC, OtherEntry>>,
      <<FileH, ImageEntry(3, "RGB", TRUE)>>,
      <<DirK, DirEntry(TRUE)>>,
      <<FileZ, ImageEntry(4, "L", TRUE)>> }

BaseEntries == { <<Root, DirEntry(TRUE)>>, <<DirD, DirEntry(TRUE)>> }

\* a subdirectory exists when a file lies in it
WithParents(pairs) ==
    pairs \cup (IF \E pair \in pairs : pair[1] = FileZ THEN {<<DirS, DirEntry(TRUE)>>} ELSE {})

FindFileSystems == { FsOf(WithParents(BaseEntries \cup chosen)) : chosen \in SUBSET OptionalEntries }

---------------------------------------------------------------------------
(* Calls of find_images *)

\* the longest list of inputs
MaxInputs == 2

\* the sequences over S of length at most n
SeqsUpTo(S, n) == UNION { [1..k -> S] : k \in 0..n }

\* spellings of paths given as inputs ("." and "./a.png" are relative)
SinglePaths ==
    { DirD, <<".">>, FileA, <<"b",".","J","P","G">>, FileC, DirS, DirK,
      <<"/","n","o","p","e">> }
ItemPaths == { DirD, FileA, <<".","/","a",".","p","n","g">>, DirS }

FindArgs ==
    { [single |-> TRUE, path |-> s, items |-> <<>>] : s \in SinglePaths }
    \cup { [single |-> FALSE, path |-> <<>>, items |-> l] : l \in SeqsUpTo(ItemPaths, MaxInputs) }

\* max_size when the caller gives none
DefaultMaxSize == 2000

NoArg == [single |-> TRUE, path |-> <<>>, items |-> <<>>]
NoResult == [status |-> "none", class |-> "none", written |-> <<>>]
NoOutput == [given |-> FALSE, path |-> <<>>]
NoArgv == [inputs |-> <<>>, output |-> NoOutput]

InitFind ==
    /\ fs \in FindFileSystems
    /\ fs0 = fs
    /\ pc = "find"
    /\ find_arg \in FindArgs
    /\ found = <<>>
    /\ cv_images = <<>>
    /\ cv_out = <<>>
    /\ max_size = DefaultMaxSize
    /\ output_path = <<>>
    /\ pdf_images = <<>>
    /\ idx = 0
    /\ result = NoResult
    /\ run_inputs = NoArg
    /\ run_out = NoOutput
    /\ images = <<>>
    /\ order_numbers = <<>>
    /\ candidate = <<>>
    /\ confirm = <<>>
    /\ message = "none"
    /\ ordered_images = <<>>
    /\ run_output = <<>>
    /\ run_result = NoResult
    /\ calls = 0
    /\ argv = NoArgv
    /\ typed_input = <<>>
    /\ typed_output = <<>>
    /\ exit_code = -1

\* a call find_images(find_arg) returns
FindImages ==
    /\ pc = "find"
    /\ found' = find_images(find_arg)
    /\ pc' = "found"
    /\ UNCHANGED <<fs, fs0, find_arg, cvVars, runVars, entryVars>>

NextFind == FindImages

SpecFind == InitFind /\ [][NextFind]_vars

---------------------------------------------------------------------------
(* Text typed at the prompts *)

\* str.strip(): the spaces at both ends removed
RECURSIVE Strip(_)
Strip(s) ==
    IF s = <<>> THEN s
    ELSE IF Head(s) = " " THEN Strip(Tail(s))
    ELSE IF s[Len(s)] = " " THEN Strip(SubSeq(s, 1, Len(s) - 1))
    ELSE s

\* str.split(): the words between runs of spaces
RECURSIVE SplitWords(_)
SplitWords(s) ==
    LET t == Strip(s)
        i == RFind(t, " ")
    IN  IF t = <<>> THEN <<>>
        ELSE IF i = 0 THEN <<t>>
        ELSE Append(SplitWords(SubSeq(t, 1, i - 1)), SubSeq(t, i + 1, Len(t)))

\* " ".join(words)
RECURSIVE JoinWords(_)
JoinWords(words) ==
    IF words = <<>> THEN <<>>
    ELSE IF Len(words) = 1 THEN words[1]
    ELSE JoinWords(SubSeq(words, 1, Len(words) - 1)) \o <<" ">> \o words[Len(words)]

\* the digits of a word after its optional sign
Digits(word) == IF word # <<>> /\ word[1] \in {"+", "-"} THEN Tail(word) ELSE word

\* int(word) succeeds: an optional sign and at least one decimal digit
IsIntLiteral(word) ==
    /\ Digits(word) # <<>>
    /\ \A i \in DOMAIN Digits(word) : IsIn(Digits(word)[i], DigitChars)

RECURSIVE DecimalValue(_)
DecimalValue(digits) ==
    IF digits = <<>> THEN 0
    ELSE 10 * DecimalValue(SubSeq(digits, 1, Len(digits) - 1))
         + (IndexIn(digits[Len(digits)], DigitChars) - 1)

\* int(word)
IntOf(word) ==
    IF word[1] = "-" THEN 0 - DecimalValue(Digits(word)) ELSE DecimalValue(Digits(word))

\* list[k] of Python: positions from 0, negative k counted from the end
PyIndex(list, k) == IF k >= 0 THEN list[k + 1] ELSE list[Len(list) + k + 1]

---------------------------------------------------------------------------
(* ImageToPDFConverter._get_custom_order: validation and reordering *)

\* faulty variant of OrderCheck: the values are only checked to lie in 1..n
OrderCheckRangeOnly(numbers, n) ==
    IF Len(numbers) # n THEN "LengthMismatch"
    ELSE IF \E i \in DOMAIN numbers : numbers[i] < 1 \/ numbers[i] > n
         THEN "NotAPermutation"
    ELSE "ok"

\* faulty variant of OrderCheck: the two checks in the other order
OrderCheckSetFirst(numbers, n) ==
    IF Range(numbers) # 1..n THEN "NotAPermutation"
    ELSE IF Len(numbers) # n THEN "LengthMismatch"
    ELSE "ok"

\* lines 143-149: the check of the length, then the check of the set of values
OrderCheck(numbers, n) ==
    IF Len(numbers) # n THEN "LengthMismatch"
    ELSE IF Range(numbers) # 1..n THEN "NotAPermutation"
    ELSE "ok"

\* faulty variant of ApplyOrder: the index is not shifted to Python's positions
ApplyOrderUnshifted(list, numbers) ==
    [j \in 1..Len(numbers) |-> PyIndex(list, numbers[j] % Len(list))]

\* line 151: [images[i - 1] for i in order_numbers]
ApplyOrder(list, numbers) ==
    [j \in 1..Len(numbers) |-> PyIndex(list, numbers[j] - 1)]

---------------------------------------------------------------------------
(* Properties of find_images *)

\* no path occurs at two positions of the list
NoDuplicates(list) == \A i, j \in DOMAIN list : i # j => list[i] # list[j]

\* the list ascends strictly in the order of Python strings
Ascending(list) == \A i, j \in DOMAIN list : i < j => StrLess(list[i], list[j])

\* the extensions the specification lists, without the dot
SupportedExtensions ==
    { <<"j","p","g">>, <<"j","p","e","g">>, <<"p","n","g">>, <<"w","e","b","p">>,
      <<"h","e","i","c">>, <<"h","e","i","f">>, <<"b","m","p">>, <<"t","i","f","f">>,
      <<"t","i","f">> }

\* a file name that is a non-empty stem, a dot and a supported extension in any case
HasSupportedExtension(name) ==
    \E ext \in SupportedExtensions :
        /\ Len(name) > Len(ext) + 1
        /\ EndsWith(Lower(name), <<".">> \o ext)

\* the regular files with a supported extension directly in directory dir
ImagesDirectlyIn(dir) ==
    { q \in DOMAIN fs :
        /\ fs[q].kind = "file"
        /\ \E name \in {SubSeq(q, Len(dir) + 2, Len(q))} :
              /\ Len(q) > Len(dir) + 1
              /\ q = dir \o <<"/">> \o name
              /\ ~IsIn("/", name)
              /\ HasSupportedExtension(name) }

\* C5: find_images called with a list of inputs returns each image path at most
\* once, also when the inputs overlap (a directory and a file inside it, or the
\* same file twice).
C5_ListResultHasNoDuplicates ==
    (pc = "found" /\ ~find_arg.single) => NoDuplicates(found)

\* C6: for a directory, find_images returns exactly the regular files directly in
\* it that have a supported extension (in any letter case), ascending, each once;
\* files of subdirectories are not included and a directory without images gives
\* the empty list.
C6_DirectoryGivesItsImagesSorted ==
    (pc = "found" /\ find_arg.single /\ IsDir(PathOf(find_arg.path))) =>
        /\ Range(found) = ImagesDirectlyIn(Resolve(PathOf(find_arg.path)))
        /\ Len(found) = Cardinality(ImagesDirectlyIn(Resolve(PathOf(find_arg.path))))
        /\ Ascending(found)

\* C6 witness: a directory holding two images (one with an upper-case extension),
\* a text file, a dot-file, a subdirectory with an image in it and a directory
\* named like an image has been searched.
C6_Witness ==
    /\ pc = "found" /\ find_arg.single /\ find_arg.path = <<".">>
    /\ {FileA, FileB, FileC, FileH, FileZ, DirK} \subseteq DOMAIN fs
    /\ found = <<FileA, FileB>>

\* C6 witness of the empty case: a directory without images gives the empty list
C6_WitnessEmpty ==
    /\ pc = "found" /\ find_arg.single /\ find_arg.path = DirD
    /\ FileC \in DOMAIN fs /\ found = <<>>

---------------------------------------------------------------------------
(* ImageToPDFConverter.convert_to_pdf *)

PdfSuffix == <<".","p","d","f">>

\* "if not output_path.suffix.lower() == '.pdf'": the paths the rule rewrites
NeedsPdfSuffix(p) == Lower(Suffix(p)) # PdfSuffix

\* faulty variant of EnsurePdfSuffix: ".pdf" is added without looking at the suffix
EnsurePdfSuffixAlways(p) == p \o PdfSuffix

\* the path after "output_path = output_path.with_suffix('.pdf')" where needed
EnsurePdfSuffix(p) == IF NeedsPdfSuffix(p) THEN WithSuffix(p, PdfSuffix) ELSE p

\* the proper ancestors of a canonical path
RECURSIVE Ancestors(_)
Ancestors(q) == IF q = Root THEN {} ELSE {Parent(q)} \cup Ancestors(Parent(q))

\* the exception Image.open(path) and the decoding of the image raise, or "none"
OpenError(path) ==
    LET q == Resolve(path) IN
    IF \E a \in Ancestors(q) : a \in DOMAIN fs /\ fs[a].kind = "file"
        THEN "NotADirectoryError"
    ELSE IF q \notin DOMAIN fs THEN "FileNotFoundError"
    ELSE IF fs[q].kind = "dir" THEN "IsADirectoryError"
    ELSE IF ~fs[q].access THEN "PermissionError"
    ELSE IF fs[q].type # "image" THEN "UnidentifiedImageError"
    ELSE "none"

\* faulty variant of Classify: the first except clause catches every OSError
ClassifyOSErrorFirst(exception) ==
    IF exception \in {"FileNotFoundError", "PermissionError", "IsADirectoryError",
                      "NotADirectoryError", "FileExistsError"}
    THEN "NotFound"
    ELSE "Other"

\* the except clauses, in their order: what the caller is told
Classify(exception) ==
    IF exception = "FileNotFoundError" THEN "NotFound"
    ELSE IF exception = "PermissionError" THEN "PermissionDenied"
    ELSE "Other"

Max(a, b) == IF a >= b THEN a ELSE b
Abs(a) == IF a >= 0 THEN a ELSE -a

\* math.ceil(a / b) for positive integers
CeilDiv(a, b) == (a + b - 1) \div b

\* round_aspect in Image.thumbnail for the width: of floor and ceil of
\* bound * width / height the one whose ratio to bound is nearer to the aspect
\* ratio, the floor when they tie, and at least 1
RoundWidth(width, height, bound) ==
    LET lo == (bound * width) \div height
        hi == CeilDiv(bound * width, height)
    IN  Max(IF Abs(width * bound - lo * height) <= Abs(width * bound - hi * height)
            THEN lo ELSE hi, 1)

\* round_aspect for the height: of floor and ceil of bound * height / width
\* the one for which bound / n is nearer to the aspect ratio; 0 has key 0
RoundHeight(width, height, bound) ==
    LET lo == (bound * height) \div width
        hi == CeilDiv(bound * height, width)
    IN  Max(IF lo = 0 THEN lo
            ELSE IF Abs(width * lo - bound * height) * hi
                        <= Abs(width * hi - bound * height) * lo
            THEN lo ELSE hi, 1)

\* faulty variant of Thumbnail: the box is taken as the new size
ThumbnailToBox(size, bound) == <<bound, bound>>

\* Image.thumbnail((bound, bound)): the size of the image afterwards
Thumbnail(size, bound) ==
    IF bound >= size[1] /\ bound >= size[2] THEN size
    ELSE IF size[2] >= size[1]
    THEN <<RoundWidth(size[1], size[2], bound), bound>>
    ELSE <<bound, RoundHeight(size[1], size[2], bound)>>

\* lines 215-220 with the bound given: RGB, and within the bound
PageOf(image, bound) ==
    [id |-> image.id,
     mode |-> IF image.mode # "RGB" THEN "RGB" ELSE image.mode,
     size |-> IF Max(image.size[1], image.size[2]) > bound
              THEN Thumbnail(image.size, bound) ELSE image.size]

\* the page made of an opened image: converted to RGB when in another mode,
\* made smaller when a side is longer than max_size
NormalizedPage(image) == PageOf(image, max_size)

\* the exception Path.mkdir(parents=True, exist_ok=True) raises, or "none"
MkdirError(dir) ==
    LET q == Resolve(dir)
        present == {a \in Ancestors(q) \cup {q} : a \in DOMAIN fs}
        nearest == CHOOSE a \in present : \A b \in present : Len(b) <= Len(a)
    IN  IF q \in DOMAIN fs
        THEN (IF fs[q].kind = "dir" THEN "none" ELSE "FileExistsError")
        ELSE IF fs[nearest].kind = "file" THEN "NotADirectoryError"
        ELSE IF ~fs[nearest].access THEN "PermissionError"
        ELSE "none"

\* faulty variant of AfterMkdir: mkdir without parents=True makes the last directory only
AfterMkdirLastOnly(dir) ==
    LET q == Resolve(dir)
    IN  [p \in DOMAIN fs \cup {q} |-> IF p \in DOMAIN fs THEN fs[p] ELSE DirEntry(TRUE)]

\* the file system after a successful mkdir: the missing directories exist
AfterMkdir(dir) ==
    LET q == Resolve(dir)
        missing == {a \in Ancestors(q) \cup {q} : a \notin DOMAIN fs}
    IN  [p \in DOMAIN fs \cup missing |-> IF p \in DOMAIN fs THEN fs[p] ELSE DirEntry(TRUE)]

\* the exception Image.save(path) raises when it opens the file, or "none"
SaveError(path) ==
    LET q == Resolve(path) IN
    IF q \in DOMAIN fs
    THEN (IF fs[q].kind = "dir" THEN "IsADirectoryError"
          ELSE IF ~fs[q].access THEN "PermissionError"
          ELSE "none")
    ELSE IF Parent(q) \notin DOMAIN fs THEN "FileNotFoundError"
    ELSE IF fs[Parent(q)].kind = "file" THEN "NotADirectoryError"
    ELSE IF ~fs[Parent(q)].access THEN "PermissionError"
    ELSE "none"

\* the file system after a successful save: the document is at the path
AfterSave(path, pages) ==
    LET q == Resolve(path) IN
    [p \in DOMAIN fs \cup {q} |-> IF p = q THEN PdfEntry(pages) ELSE fs[p]]

Returned(ok, class, written) ==
    [status |-> IF ok THEN "true" ELSE "false", class |-> class, written |-> written]
Raised(exception) == [status |-> "raised", class |-> exception, written |-> <<>>]

\* faulty variant of ConvertEnter: the empty check is missing
ConvertEnterWithoutEmptyCheck ==
    /\ pc = "cv_enter"
    /\ IF NeedsPdfSuffix(PathOf(cv_out)) /\ ~HasName(PathOf(cv_out))
       THEN /\ result' = Raised("ValueError")
            /\ pc' = "cv_done"
            /\ UNCHANGED <<output_path, pdf_images, idx>>
       ELSE /\ output_path' = EnsurePdfSuffix(PathOf(cv_out))
            /\ pdf_images' = <<>>
            /\ idx' = 1
            /\ pc' = "cv_loop"
            /\ UNCHANGED result
    /\ UNCHANGED <<fs, fs0, findVars, entryVars, runVars, cv_images, cv_out, max_size>>

\* lines 198-208: the empty check, then the .pdf rule; with_suffix raises
\* ValueError, outside the try, for a path without a name
ConvertEnter ==
    /\ pc = "cv_enter"
    /\ IF cv_images = <<>>
       THEN /\ result' = Returned(FALSE, "NoImages", <<>>)
            /\ pc' = "cv_done"
            /\ UNCHANGED <<output_path, pdf_images, idx>>
       ELSE IF NeedsPdfSuffix(PathOf(cv_out)) /\ ~HasName(PathOf(cv_out))
       THEN /\ result' = Raised("ValueError")
            /\ pc' = "cv_done"
            /\ UNCHANGED <<output_path, pdf_images, idx>>
       ELSE /\ output_path' = EnsurePdfSuffix(PathOf(cv_out))
            /\ pdf_images' = <<>>
            /\ idx' = 1
            /\ pc' = "cv_loop"
            /\ UNCHANGED result
    /\ UNCHANGED <<fs, fs0, findVars, entryVars, runVars, cv_images, cv_out, max_size>>

\* faulty variant of ProcessImage: an image that cannot be opened is skipped
ProcessImageSkippingFailures ==
    /\ pc = "cv_loop"
    /\ idx <= Len(cv_images)
    /\ IF OpenError(cv_images[idx]) = "none"
       THEN pdf_images' = Append(pdf_images, NormalizedPage(fs[Resolve(cv_images[idx])]))
       ELSE UNCHANGED pdf_images
    /\ idx' = idx + 1
    /\ UNCHANGED <<fs, fs0, pc, result, findVars, entryVars, runVars, cv_images, cv_out, max_size, output_path>>

\* lines 210-222: one iteration of the loop; an exception leaves the try
ProcessImage ==
    /\ pc = "cv_loop"
    /\ idx <= Len(cv_images)
    /\ IF OpenError(cv_images[idx]) = "none"
       THEN /\ pdf_images' = Append(pdf_images, NormalizedPage(fs[Resolve(cv_images[idx])]))
            /\ idx' = idx + 1
            /\ UNCHANGED <<pc, result>>
       ELSE /\ result' = Returned(FALSE, Classify(OpenError(cv_images[idx])), <<>>)
            /\ pc' = "cv_done"
            /\ UNCHANGED <<pdf_images, idx>>
    /\ UNCHANGED <<fs, fs0, findVars, entryVars, runVars, cv_images, cv_out, max_size, output_path>>

\* lines 224-226: after the loop, the parent directory is made
MakeParentDirs ==
    /\ pc = "cv_loop"
    /\ idx > Len(cv_images)
    /\ IF pdf_images = <<>>
       THEN /\ result' = Returned(FALSE, "none", <<>>)
            /\ pc' = "cv_done"
            /\ UNCHANGED fs
       ELSE IF MkdirError(Parent(output_path)) = "none"
       THEN /\ fs' = AfterMkdir(Parent(output_path))
            /\ pc' = "cv_save"
            /\ UNCHANGED result
       ELSE /\ result' = Returned(FALSE, Classify(MkdirError(Parent(output_path))), <<>>)
            /\ pc' = "cv_done"
            /\ UNCHANGED fs
    /\ UNCHANGED <<fs0, findVars, entryVars, runVars, cv_images, cv_out, max_size, output_path, pdf_images, idx>>

\* faulty variant of SaveDocument: the other pages are not appended
SaveDocumentFirstPageOnly ==
    /\ pc = "cv_save"
    /\ IF SaveError(output_path) = "none"
       THEN /\ fs' = AfterSave(output_path, <<pdf_images[1]>>)
            /\ result' = Returned(TRUE, "none", output_path)
       ELSE /\ result' = Returned(FALSE, Classify(SaveError(output_path)), <<>>)
            /\ UNCHANGED fs
    /\ pc' = "cv_done"
    /\ UNCHANGED <<fs0, findVars, entryVars, runVars, cv_images, cv_out, max_size, output_path, pdf_images, idx>>

\* lines 228-238: the first page is saved with the others appended
SaveDocument ==
    /\ pc = "cv_save"
    /\ IF SaveError(output_path) = "none"
       THEN /\ fs' = AfterSave(output_path, <<pdf_images[1]>> \o Tail(pdf_images))
            /\ result' = Returned(TRUE, "none", output_path)
       ELSE /\ result' = Returned(FALSE, Classify(SaveError(output_path)), <<>>)
            /\ UNCHANGED fs
    /\ pc' = "cv_done"
    /\ UNCHANGED <<fs0, findVars, entryVars, runVars, cv_images, cv_out, max_size, output_path, pdf_images, idx>>

---------------------------------------------------------------------------
(* ImageToPDFConverter.run and the prompt loops it calls *)

Running == [status |-> "running", class |-> "none", written |-> <<>>]

DefaultName ==
    <<"c","o","n","v","e","r","t","e","d","_","i","m","a","g","e","s",".","p","d","f">>

\* lines 277-279: all_images after the loop over input_paths
RECURSIVE FindEach(_)
FindEach(paths) ==
    IF paths = <<>> THEN <<>>
    ELSE Sorted(FindSingle(Head(paths))) \o FindEach(Tail(paths))

\* lines 274-280: the located images
Locate(inputs) ==
    IF inputs.single THEN find_images(inputs)
    ELSE Sorted(SetToSeq(Range(FindEach(inputs.items))))

\* faulty variant of RunLocate: the check for an empty result is missing
RunLocateWithoutEmptyCheck ==
    /\ pc = "run_start"
    /\ images' = Locate(run_inputs)
    /\ run_result' = Running
    /\ pc' = "order_menu"
    /\ message' = "order menu"
    /\ UNCHANGED <<fs, fs0, findVars, entryVars, cvVars, run_inputs, run_out, calls,
                   order_numbers, candidate, confirm, ordered_images, run_output>>

\* lines 273-285: locate; without images run returns False
RunLocate ==
    /\ pc = "run_start"
    /\ images' = Locate(run_inputs)
    /\ IF images' = <<>>
       THEN /\ run_result' = Returned(FALSE, "NoImages", <<>>)
            /\ pc' = "run_done"
            /\ UNCHANGED message
       ELSE /\ run_result' = Running
            /\ pc' = "order_menu"
            /\ message' = "order menu"
    /\ UNCHANGED <<fs, fs0, findVars, entryVars, cvVars, run_inputs, run_out, calls, order_numbers,
                   candidate, confirm, ordered_images, run_output>>

\* lines 116-123: one answer to the ordering menu
OrderMenu(choice) ==
    /\ pc = "order_menu"
    /\ IF Strip(choice) = <<"1">>
       THEN /\ ordered_images' = images
            /\ pc' = "out_decide"
            /\ UNCHANGED message
       ELSE IF Strip(choice) = <<"2">>
       THEN /\ pc' = "order_entry"
            /\ message' = "Order: "
            /\ UNCHANGED ordered_images
       ELSE /\ message' = "Invalid choice"
            /\ UNCHANGED <<pc, ordered_images>>
    /\ UNCHANGED <<fs, fs0, findVars, entryVars, cvVars, run_inputs, run_out, calls, images, order_numbers,
                   candidate, confirm, run_output, run_result>>

\* lines 140-156 and 165-166: one entry at the "Order: " prompt is parsed,
\* checked and, when it passes, applied and shown
EnterOrder(entry) ==
    /\ pc = "order_entry"
    /\ LET words == SplitWords(Strip(entry)) IN
       IF \E i \in DOMAIN words : ~IsIntLiteral(Strip(words[i]))
       THEN /\ message' = "ValueError"
            /\ pc' = "order_rejected"
            /\ UNCHANGED <<order_numbers, candidate>>
       ELSE /\ order_numbers' = [i \in DOMAIN words |-> IntOf(Strip(words[i]))]
            /\ message' = OrderCheck(order_numbers', Len(images))
            /\ IF message' = "ok"
               THEN /\ candidate' = ApplyOrder(images, order_numbers')
                    /\ pc' = "order_confirm"
               ELSE /\ pc' = "order_rejected"
                    /\ UNCHANGED candidate
    /\ UNCHANGED <<fs, fs0, findVars, entryVars, cvVars, run_inputs, run_out, calls, images,
                   confirm,
                   ordered_images, run_output, run_result>>

\* "continue" after an error line: the loop prompts again; what the rejected
\* entry left in the locals is overwritten before it is read
Reprompt ==
    /\ pc = "order_rejected"
    /\ pc' = "order_entry"
    /\ message' = "Order: "
    /\ order_numbers' = <<>>
    /\ UNCHANGED <<fs, fs0, findVars, entryVars, cvVars, run_inputs, run_out, calls, images, candidate, confirm,
                   ordered_images, run_output, run_result>>

\* line 158: the answer to "Confirm this order?" is read, stripped and lowered
ConfirmOrder(answer) ==
    /\ pc = "order_confirm"
    /\ confirm' = Lower(Strip(answer))
    /\ pc' = "order_answered"
    /\ UNCHANGED <<fs, fs0, findVars, entryVars, cvVars, run_inputs, run_out, calls, images,
                   order_numbers, candidate, message, ordered_images, run_output,
                   run_result>>

\* faulty variant of AfterConfirm: the order is returned whatever the answer
AfterConfirmAnyAnswer ==
    /\ pc = "order_answered"
    /\ ordered_images' = candidate
    /\ pc' = "out_decide"
    /\ confirm' = <<>>
    /\ UNCHANGED <<fs, fs0, findVars, entryVars, cvVars, run_inputs, run_out, calls, images,
                   order_numbers, candidate, message, run_output, run_result>>

\* lines 159-163: with y or yes the order is returned, otherwise the loop
\* prompts again; the locals of the attempt are not read again
AfterConfirm ==
    /\ pc = "order_answered"
    /\ IF confirm \in { <<"y">>, <<"y","e","s">> }
       THEN /\ ordered_images' = candidate
            /\ pc' = "out_decide"
            /\ UNCHANGED <<message, order_numbers, candidate>>
       ELSE /\ message' = "Order: "
            /\ pc' = "order_entry"
            /\ order_numbers' = <<>>
            /\ candidate' = <<>>
            /\ UNCHANGED ordered_images
    /\ confirm' = <<>>
    /\ UNCHANGED <<fs, fs0, findVars, entryVars, cvVars, run_inputs, run_out, calls, images,
                   run_output, run_result>>

\* lines 311-317: the .pdf rule on the path, then the call of convert_to_pdf;
\* with_suffix raises ValueError for a path without a name
CallConvert(path) ==
    IF NeedsPdfSuffix(PathOf(path)) /\ ~HasName(PathOf(path))
    THEN /\ run_result' = Raised("ValueError")
         /\ pc' = "run_done"
         /\ UNCHANGED <<fs0, cvVars, run_output, calls>>
    ELSE /\ run_output' = EnsurePdfSuffix(PathOf(path))
         /\ cv_images' = ordered_images
         /\ cv_out' = run_output'
         /\ max_size' = DefaultMaxSize
         /\ fs0' = fs
         /\ calls' = calls + 1
         /\ pc' = "cv_enter"
         /\ UNCHANGED <<output_path, pdf_images, idx, result, run_result>>

\* "if not output_path": None and the empty string ask for the prompt
OutputMissing == ~run_out.given \/ run_out.path = <<>>

\* line 291 with an output path given
OutputGiven ==
    /\ pc = "out_decide"
    /\ ~OutputMissing
    /\ CallConvert(run_out.path)
    /\ UNCHANGED <<fs, findVars, entryVars, run_inputs, run_out, images, order_numbers, candidate, confirm,
                   message, ordered_images>>

\* lines 296-309: one answer to the menu of output locations
OutputMenu(choice) ==
    /\ pc = "out_decide"
    /\ OutputMissing
    /\ IF Strip(choice) = <<"1">>
       THEN /\ CallConvert(JoinPath(Parent(PyIndex(ordered_images, 0)), DefaultName))
            /\ UNCHANGED message
       ELSE IF Strip(choice) = <<"2">>
       THEN /\ pc' = "out_custom"
            /\ message' = "Enter full path"
            /\ UNCHANGED <<fs0, cvVars, run_output, run_result, calls>>
       ELSE /\ message' = "Invalid choice"
            /\ UNCHANGED <<pc, fs0, cvVars, run_output, run_result, calls>>
    /\ UNCHANGED <<fs, findVars, entryVars, run_inputs, run_out, images, order_numbers, candidate, confirm,
                   ordered_images>>

\* lines 303-307: the custom path, ".pdf" added when the text does not end in it
CustomPath(text) ==
    IF EndsWith(Lower(Strip(text)), PdfSuffix) THEN Strip(text) ELSE Strip(text) \o PdfSuffix

EnterCustomPath(text) ==
    /\ pc = "out_custom"
    /\ CallConvert(CustomPath(text))
    /\ UNCHANGED <<fs, findVars, entryVars, run_inputs, run_out, images, order_numbers, candidate, confirm,
                   message, ordered_images>>

\* lines 319-323: the size of the output file is read after a success;
\* Path.stat raises FileNotFoundError when nothing lies at the path
RunFinish ==
    /\ pc = "cv_done"
    /\ run_result.status = "running"
    /\ run_result' =
          IF result.status = "raised" THEN result
          ELSE IF result.status = "true" /\ ~Exists(run_output) THEN Raised("FileNotFoundError")
          ELSE Returned(result.status = "true", result.class, run_output)
    /\ pc' = "run_done"
    /\ UNCHANGED <<fs, fs0, findVars, entryVars, cvVars, run_inputs, run_out, calls, images, order_numbers,
                   candidate, confirm, message, ordered_images, run_output>>

---------------------------------------------------------------------------
(* cli.main, the entry point of the package *)

\* str.strip(ch): the character ch removed at both ends
RECURSIVE StripChar(_, _)
StripChar(s, ch) ==
    IF s = <<>> THEN s
    ELSE IF Head(s) = ch THEN StripChar(Tail(s), ch)
    ELSE IF s[Len(s)] = ch THEN StripChar(SubSeq(s, 1, Len(s) - 1), ch)
    ELSE s

\* line 60: the answer without its quotes, as one Path
TypedPath(text) == PathOf(StripChar(StripChar(Strip(text), "\""), "'"))

\* lines 72-76: one positional input is passed alone, several as a list
ArgumentInputs(inputs) ==
    IF Len(inputs) > 1
    THEN [single |-> FALSE, path |-> <<>>, items |-> [i \in DOMAIN inputs |-> PathOf(inputs[i])]]
    ELSE [single |-> TRUE, path |-> PathOf(inputs[1]), items |-> <<>>]

\* line 78, and sys.exit(main()): the exit status for what run returned; an
\* exception that leaves main ends the interpreter with status 1
ExitCode(outcome) == IF outcome.status = "true" THEN 0 ELSE 1

\* lines 50-69: without positional inputs both prompts are answered; an empty
\* answer to the first ends main with 1
CliInteractive(text, out) ==
    /\ pc = "cli_start"
    /\ argv.inputs = <<>>
    /\ typed_input' = text
    /\ IF Strip(text) = <<>>
       THEN /\ exit_code' = 1
            /\ pc' = "exited"
            /\ UNCHANGED <<typed_output, run_inputs, run_out, calls>>
       ELSE /\ typed_output' = out
            /\ run_inputs' = [single |-> TRUE, path |-> TypedPath(text), items |-> <<>>]
            /\ run_out' = IF Strip(out) = <<>> THEN NoOutput
                          ELSE [given |-> TRUE, path |-> Strip(out)]
            /\ pc' = "run_start"
            /\ UNCHANGED exit_code
    /\ UNCHANGED <<fs, fs0, findVars, cvVars, argv, calls, images, order_numbers, candidate, confirm,
                   message, ordered_images, run_output, run_result>>

\* lines 70-76: with positional inputs run is called with them and args.output
CliArguments ==
    /\ pc = "cli_start"
    /\ argv.inputs # <<>>
    /\ run_inputs' = ArgumentInputs(argv.inputs)
    /\ run_out' = argv.output
    /\ pc' = "run_start"
    /\ UNCHANGED <<fs, fs0, findVars, cvVars, entryVars, calls, images, order_numbers, candidate, confirm,
                   message, ordered_images, run_output, run_result>>

\* line 78: main returns and the process exits
CliExit ==
    /\ pc = "run_done"
    /\ exit_code = -1
    /\ exit_code' = ExitCode(run_result)
    /\ pc' = "exited"
    /\ UNCHANGED <<fs, fs0, findVars, cvVars, runVars, argv, typed_input, typed_output>>

---------------------------------------------------------------------------
(* image_to_pdf_converter.py, the script kept beside the package: its paths
   are strings handled with os.path, none is resolved *)

\* os.path.isdir and os.path.isfile; the empty string names nothing
OsIsDir(s) == s # <<>> /\ IsDir(PathOf(s))
OsIsFile(s) == s # <<>> /\ IsFile(PathOf(s))

\* os.path.join(dir, name)
OsJoin(dir, name) ==
    IF dir = <<>> THEN name
    ELSE IF dir[Len(dir)] = "/" THEN dir \o name
    ELSE dir \o <<"/">> \o name

\* os.path.dirname(s): what precedes the last slash, "/" for a file in the root
OsDirName(s) ==
    LET i == RFind(s, "/") IN
    IF i = 0 THEN <<>> ELSE IF i = 1 THEN <<"/">> ELSE SubSeq(s, 1, i - 1)

\* os.listdir(dir): the names in the directory
OsListDir(dir) ==
    SetToSeq({Name(q) : q \in {r \in DOMAIN fs : r # Resolve(PathOf(dir))
                                               /\ Parent(r) = Resolve(PathOf(dir))}})

\* os.path.splitext(s)[1]: from the last dot of the last component, the dots
\* the component begins with not counted
RECURSIVE DropDots(_)
DropDots(s) == IF s # <<>> /\ Head(s) = "." THEN DropDots(Tail(s)) ELSE s

SplitExt(s) ==
    LET rest == DropDots(SubSeq(s, RFind(s, "/") + 1, Len(s)))
        i == RFind(rest, ".")
    IN  IF i > 0 THEN SubSeq(rest, i, Len(rest)) ELSE <<>>

\* lines 20-25 and 37-42: the images of a directory, as dir/name
RECURSIVE ScriptScan(_, _)
ScriptScan(dir, names) ==
    IF names = <<>> THEN <<>>
    ELSE (IF /\ OsIsFile(OsJoin(dir, Head(names)))
             /\ SplitExt(Lower(Head(names))) \in supported_formats
          THEN <<OsJoin(dir, Head(names))>> ELSE <<>>)
         \o ScriptScan(dir, Tail(names))

\* lines 19-29: the branch for a str
ScriptFindStr(s) ==
    IF OsIsDir(s) THEN ScriptScan(s, OsListDir(s))
    ELSE IF OsIsFile(s) /\ SplitExt(Lower(s)) \in supported_formats THEN <<s>>
    ELSE <<>>

\* lines 31-42: the branch for a list
RECURSIVE ScriptFindItems(_)
ScriptFindItems(items) ==
    IF items = <<>> THEN <<>>
    ELSE (IF OsIsFile(Head(items))
          THEN (IF SplitExt(Lower(Head(items))) \in supported_formats
                THEN <<Head(items)>> ELSE <<>>)
          ELSE IF OsIsDir(Head(items)) THEN ScriptScan(Head(items), OsListDir(Head(items)))
          ELSE <<>>)
         \o ScriptFindItems(Tail(items))

\* lines 16-43: find_images of the script
ScriptFindImages(arg) ==
    IF arg.single THEN Sorted(ScriptFindStr(arg.path)) ELSE Sorted(ScriptFindItems(arg.items))

\* lines 134-136: all_images after the loop over input_paths
RECURSIVE ScriptFindEach(_)
ScriptFindEach(paths) ==
    IF paths = <<>> THEN <<>>
    ELSE Sorted(ScriptFindStr(Head(paths))) \o ScriptFindEach(Tail(paths))

\* lines 131-141: locate; without images run returns False
ScriptRunLocate ==
    /\ pc = "run_start"
    /\ images' = IF run_inputs.single THEN ScriptFindImages(run_inputs)
                 ELSE Sorted(SetToSeq(Range(ScriptFindEach(run_inputs.items))))
    /\ IF images' = <<>>
       THEN /\ run_result' = Returned(FALSE, "NoImages", <<>>)
            /\ pc' = "run_done"
            /\ UNCHANGED message
       ELSE /\ run_result' = Running
            /\ pc' = "order_menu"
            /\ message' = "order menu"
    /\ UNCHANGED <<fs, fs0, findVars, entryVars, cvVars, run_inputs, run_out, calls, order_numbers,
                   candidate, confirm, ordered_images, run_output>>

\* lines 162-164: ".pdf" is added to a string that does not end in it, then
\* convert_to_pdf is called
ScriptCallConvert(path) ==
    /\ run_output' = IF EndsWith(Lower(path), PdfSuffix) THEN path ELSE path \o PdfSuffix
    /\ cv_images' = ordered_images
    /\ cv_out' = run_output'
    /\ UNCHANGED max_size
    /\ fs0' = fs
    /\ calls' = calls + 1
    /\ pc' = "cv_enter"
    /\ UNCHANGED <<output_path, pdf_images, idx, result, run_result>>

\* line 144 with an output path given
ScriptOutputGiven ==
    /\ pc = "out_decide"
    /\ ~OutputMissing
    /\ ScriptCallConvert(run_out.path)
    /\ UNCHANGED <<fs, findVars, entryVars, run_inputs, run_out, images, order_numbers,
                   candidate, confirm, message, ordered_images>>

\* lines 148-161: one answer to the menu of output locations
ScriptOutputMenu(choice) ==
    /\ pc = "out_decide"
    /\ OutputMissing
    /\ IF Strip(choice) = <<"1">>
       THEN /\ ScriptCallConvert(OsJoin(OsDirName(PyIndex(ordered_images, 0)), DefaultName))
            /\ UNCHANGED message
       ELSE IF Strip(choice) = <<"2">>
       THEN /\ pc' = "out_custom"
            /\ message' = "Enter full path"
            /\ UNCHANGED <<fs0, cvVars, run_output, run_result, calls>>
       ELSE /\ message' = "Invalid choice"
            /\ UNCHANGED <<pc, fs0, cvVars, run_output, run_result, calls>>
    /\ UNCHANGED <<fs, findVars, entryVars, run_inputs, run_out, images, order_numbers,
                   candidate, confirm, ordered_images>>

\* lines 155-159: the custom path
ScriptEnterCustomPath(text) ==
    /\ pc = "out_custom"
    /\ ScriptCallConvert(CustomPath(text))
    /\ UNCHANGED <<fs, findVars, entryVars, run_inputs, run_out, images, order_numbers,
                   candidate, confirm, message, ordered_images>>

\* lines 104-112: the images before the first that cannot be opened
RECURSIVE ScriptOpened(_)
ScriptOpened(paths) ==
    IF paths = <<>> \/ OpenError(PathOf(Head(paths))) # "none" THEN <<>>
    ELSE <<PageOf(fs[Resolve(PathOf(Head(paths)))], 2000)>> \o ScriptOpened(Tail(paths))

\* lines 97-126: convert_to_pdf of the script, which makes no directory,
\* leaves the path as it is and answers every exception with False
ScriptConvert ==
    /\ pc = "cv_enter"
    /\ output_path' = cv_out
    /\ pdf_images' = ScriptOpened(cv_images)
    /\ idx' = Len(pdf_images') + 1
    /\ IF cv_images = <<>>
       THEN /\ result' = Returned(FALSE, "NoImages", <<>>)
            /\ UNCHANGED fs
       ELSE IF Len(pdf_images') < Len(cv_images) \/ SaveError(PathOf(cv_out)) # "none"
       THEN /\ result' = Returned(FALSE, "Other", <<>>)
            /\ UNCHANGED fs
       ELSE /\ fs' = AfterSave(PathOf(cv_out), <<pdf_images'[1]>> \o Tail(pdf_images'))
            /\ result' = Returned(TRUE, "none", cv_out)
    /\ pc' = "cv_done"
    /\ UNCHANGED <<fs0, findVars, entryVars, runVars, cv_images, cv_out, max_size>>

\* lines 165-168: os.path.getsize after a success, then the result is returned
ScriptRunFinish ==
    /\ pc = "cv_done"
    /\ run_result.status = "running"
    /\ run_result' =
          IF result.status = "true" /\ ~Exists(PathOf(run_output))
          THEN Raised("FileNotFoundError")
          ELSE Returned(result.status = "true", result.class, run_output)
    /\ pc' = "run_done"
    /\ UNCHANGED <<fs, fs0, findVars, entryVars, cvVars, run_inputs, run_out, calls, images,
                   order_numbers, candidate, confirm, message, ordered_images, run_output>>

\* line 187: the words of the answer, each without its quotes
ScriptWords(text) ==
    LET words == SplitWords(text)
    IN  [i \in DOMAIN words |-> StripChar(StripChar(words[i], "\""), "'")]

\* lines 179-194: started without arguments, the script asks for the input and
\* the output name; an answer with a space in it is split into a list
ScriptInteractive(text, out) ==
    /\ pc = "script_start"
    /\ argv.inputs = <<>> /\ ~argv.output.given
    /\ typed_input' = text
    /\ IF Strip(text) = <<>>
       THEN /\ exit_code' = 1
            /\ pc' = "exited"
            /\ UNCHANGED <<typed_output, run_inputs, run_out, calls>>
       ELSE /\ typed_output' = out
            /\ run_inputs' =
                  IF IsIn(" ", Strip(text))
                  THEN [single |-> FALSE, path |-> <<>>, items |-> ScriptWords(Strip(text))]
                  ELSE [single |-> TRUE, items |-> <<>>,
                        path |-> StripChar(StripChar(Strip(text), "\""), "'")]
            /\ run_out' = [given |-> TRUE,
                           path |-> IF Strip(out) = <<>> THEN DefaultName ELSE Strip(out)]
            /\ pc' = "run_start"
            /\ UNCHANGED exit_code
    /\ UNCHANGED <<fs, fs0, findVars, cvVars, argv, calls, images, order_numbers, candidate, confirm,
                   message, ordered_images, run_output, run_result>>

\* lines 170-176: main passes the list of inputs and the -o option, which
\* defaults to converted_images.pdf
ScriptArguments ==
    /\ pc = "script_start"
    /\ argv.inputs # <<>>
    /\ run_inputs' = [single |-> FALSE, path |-> <<>>, items |-> argv.inputs]
    /\ run_out' = [given |-> TRUE,
                   path |-> IF argv.output.given THEN argv.output.path ELSE DefaultName]
    /\ pc' = "run_start"
    /\ UNCHANGED <<fs, fs0, findVars, cvVars, entryVars, calls, images, order_numbers, candidate, confirm,
                   message, ordered_images, run_output, run_result>>

\* lines 176 and 194: what run returned is dropped and the script ends with
\* status 0; an exception that leaves run ends it with status 1
ScriptExit ==
    /\ pc = "run_done"
    /\ exit_code = -1
    /\ exit_code' = IF run_result.status = "raised" THEN 1 ELSE 0
    /\ pc' = "exited"
    /\ UNCHANGED <<fs, fs0, findVars, cvVars, runVars, argv, typed_input, typed_output>>

---------------------------------------------------------------------------
(* Calls of convert_to_pdf *)

\* the longest list of images passed to convert_to_pdf
MaxImages == 3

DirR == <<"/","r">>
DirP == <<"/","d","/","p",".","p","d","f">>
FileX == <<"/","d","/","x",".","p","n","g">>
FileM == <<"/","d","/","m",".","p","n","g">>
FileOld == <<"/","d","/","o",".","p","d","f">>
FileT == <<"/","d","/","c",".","t","x","t","/","t",".","p","n","g">>

\* the document that lies at /d/o.pdf before the call, in some file systems
OldPages == << [id |-> 9, mode |-> "RGB", size |-> <<100, 100>>] >>

\* /d holds two readable images, a text file, an unreadable image, a directory
\* named like an image and one named like a document; /r is not writable;
\* /d/m.png does not exist
ConvertEntries ==
    BaseEntries \cup
    { <<FileA, ImageEntry(1, "RGB", TRUE)>>,
      <<FileB, SizedImage(2, "RGBA", 4000, 3000)>>,
      <<FileC, OtherEntry>>,
      <<FileX, ImageEntry(5, "RGB", FALSE)>>,
      <<DirK, DirEntry(TRUE)>>,
      <<DirP, DirEntry(TRUE)>>,
      <<DirR, DirEntry(FALSE)>> }

ConvertFileSystems ==
    { FsOf(ConvertEntries \cup old) : old \in SUBSET { <<FileOld, PdfEntry(OldPages)>> } }

\* the image paths passed ("b.JPG" is relative to the working directory, and
\* /d/c.txt/t.png runs through a regular file)
\* the values of max_size passed: a small one and the default
MaxSizeArgs == { 50, DefaultMaxSize }

ImageArgs == { FileA, <<"b",".","J","P","G">>, FileC, FileX, FileM, FileT }

\* the output paths passed
OutputArgs ==
    { <<"o">>,
      FileOld,
      <<"/","d","/","o",".","P","D","F">>,
      <<"/","d","/","s","c","a","n",".","v","2">>,
      <<"/","d","/",".","p","d","f">>,
      <<"/","n","/","m","/","o",".","p","d","f">>,
      <<"/","r","/","o",".","p","d","f">>,
      <<"/","r","/","x","/","o",".","p","d","f">>,
      <<"/","d","/","c",".","t","x","t","/","o",".","p","d","f">>,
      DirP,
      <<".">> }

InitConvert ==
    /\ fs \in ConvertFileSystems
    /\ fs0 = fs
    /\ pc = "cv_enter"
    /\ find_arg = NoArg
    /\ found = <<>>
    /\ cv_images \in SeqsUpTo(ImageArgs, MaxImages)
    /\ cv_out \in OutputArgs
    /\ max_size \in MaxSizeArgs
    /\ output_path = <<>>
    /\ pdf_images = <<>>
    /\ idx = 0
    /\ result = NoResult
    /\ run_inputs = NoArg
    /\ run_out = NoOutput
    /\ images = <<>>
    /\ order_numbers = <<>>
    /\ candidate = <<>>
    /\ confirm = <<>>
    /\ message = "none"
    /\ ordered_images = <<>>
    /\ run_output = <<>>
    /\ run_result = NoResult
    /\ calls = 0
    /\ argv = NoArgv
    /\ typed_input = <<>>
    /\ typed_output = <<>>
    /\ exit_code = -1

NextConvert ==
    \/ ConvertEnter
    \/ ProcessImage
    \/ MakeParentDirs
    \/ SaveDocument

SpecConvert == InitConvert /\ [][NextConvert]_vars

---------------------------------------------------------------------------
(* Calls of convert_to_pdf with one image, over its sizes and max_size *)

\* the longest side of an image and the largest max_size, in pixels
MaxSide == 8

\* /d holds one image of the given size
ResizeFileSystems ==
    { FsOf(BaseEntries \cup { <<FileA, SizedImage(1, "RGB", width, height)>> }) :
        width \in 1..MaxSide, height \in 1..MaxSide }

InitResize ==
    /\ fs \in ResizeFileSystems
    /\ fs0 = fs
    /\ pc = "cv_enter"
    /\ find_arg = NoArg
    /\ found = <<>>
    /\ cv_images = <<FileA>>
    /\ cv_out = FileOld
    /\ max_size \in 1..MaxSide
    /\ output_path = <<>>
    /\ pdf_images = <<>>
    /\ idx = 0
    /\ result = NoResult
    /\ run_inputs = NoArg
    /\ run_out = NoOutput
    /\ images = <<>>
    /\ order_numbers = <<>>
    /\ candidate = <<>>
    /\ confirm = <<>>
    /\ message = "none"
    /\ ordered_images = <<>>
    /\ run_output = <<>>
    /\ run_result = NoResult
    /\ calls = 0
    /\ argv = NoArgv
    /\ typed_input = <<>>
    /\ typed_output = <<>>
    /\ exit_code = -1

NextResize ==
    \/ ConvertEnter
    \/ ProcessImage
    \/ MakeParentDirs
    \/ SaveDocument

SpecResize == InitResize /\ [][NextResize]_vars

---------------------------------------------------------------------------
(* Calls of run *)

\* the longest entry at the "Order: " prompt, in words
MaxOrderLen == 4

\* /d holds a text file and up to two images, /d/s up to one, and one of the
\* images may be unreadable; /r is not writable
RunFileSystems ==
    { FsOf(WithParents(BaseEntries \cup {<<FileC, OtherEntry>>, <<DirR, DirEntry(FALSE)>>}
                       \cup chosen)) :
        chosen \in { {},
                     { <<FileA, ImageEntry(1, "RGB", TRUE)>> },
                     { <<FileA, ImageEntry(1, "RGB", TRUE)>>,
                       <<FileB, ImageEntry(2, "RGBA", TRUE)>> },
                     { <<FileA, ImageEntry(1, "RGB", TRUE)>>,
                       <<FileX, ImageEntry(5, "RGB", FALSE)>> },
                     { <<FileA, ImageEntry(1, "RGB", TRUE)>>,
                       <<FileB, ImageEntry(2, "RGBA", TRUE)>>,
                       <<FileZ, ImageEntry(4, "L", TRUE)>> } } }

\* a directory, two directories, and a directory with a file that lies in it
RunInputs ==
    { [single |-> TRUE, path |-> DirD, items |-> <<>>],
      [single |-> FALSE, path |-> <<>>, items |-> <<DirS, DirD>>],
      [single |-> FALSE, path |-> <<>>, items |-> <<DirD, <<".","/","a",".","p","n","g">> >>] }

\* no output path, or one with or without a suffix, or in /r, or without a name
RunOutputs ==
    { NoOutput }
    \cup { [given |-> TRUE, path |-> s] :
             s \in { <<"o">>, <<"/","d","/","s","c","a","n",".","v","2">>,
                     <<"/","r","/","o",".","p","d","f">>, <<".">> } }

\* what the user may type at the menus, at the confirmation and for the path
MenuChoices == { <<"1">>, <<" ","2"," ">>, <<"3">> }
ConfirmAnswers == { <<"y">>, <<" ","Y","E","S">>, <<"n">>, <<>> }
CustomPaths == { <<"o">>, <<"/","d","/","o",".","P","D","F">>, <<>>, <<"/","r","/","o">> }

\* the words of an entry at the "Order: " prompt, and the entries
OrderWords == { <<"0">>, <<"1">>, <<"2">>, <<"3">>, <<"x">> }
OrderEntries == { JoinWords(words) : words \in SeqsUpTo(OrderWords, MaxOrderLen) }

Init ==
    /\ fs \in RunFileSystems
    /\ fs0 = fs
    /\ pc = "run_start"
    /\ find_arg = NoArg
    /\ found = <<>>
    /\ cv_images = <<>>
    /\ cv_out = <<>>
    /\ max_size = DefaultMaxSize
    /\ output_path = <<>>
    /\ pdf_images = <<>>
    /\ idx = 0
    /\ result = NoResult
    /\ run_inputs \in RunInputs
    /\ run_out \in RunOutputs
    /\ images = <<>>
    /\ order_numbers = <<>>
    /\ candidate = <<>>
    /\ confirm = <<>>
    /\ message = "none"
    /\ ordered_images = <<>>
    /\ run_output = <<>>
    /\ run_result = NoResult
    /\ calls = 0
    /\ argv = NoArgv
    /\ typed_input = <<>>
    /\ typed_output = <<>>
    /\ exit_code = -1

Next ==
    \/ RunLocate
    \/ \E choice \in MenuChoices : OrderMenu(choice)
    \/ \E entry \in OrderEntries : EnterOrder(entry)
    \/ Reprompt
    \/ \E answer \in ConfirmAnswers : ConfirmOrder(answer)
    \/ AfterConfirm
    \/ OutputGiven
    \/ \E choice \in MenuChoices : OutputMenu(choice)
    \/ \E text \in CustomPaths : EnterCustomPath(text)
    \/ ConvertEnter
    \/ ProcessImage
    \/ MakeParentDirs
    \/ SaveDocument
    \/ RunFinish

Spec == Init /\ [][Next]_vars

---------------------------------------------------------------------------
(* Runs of cli.main *)

\* /d is empty of images, or holds one, or two and a third in /d/s
CliFileSystems ==
    { FsOf(WithParents(BaseEntries \cup {<<FileC, OtherEntry>>, <<DirR, DirEntry(FALSE)>>}
                       \cup chosen)) :
        chosen \in { {},
                     { <<FileA, ImageEntry(1, "RGB", TRUE)>>,
                       <<FileX, ImageEntry(5, "RGB", FALSE)>> },
                     { <<FileA, ImageEntry(1, "RGB", TRUE)>>,
                       <<FileB, ImageEntry(2, "RGBA", TRUE)>>,
                       <<FileZ, ImageEntry(4, "L", TRUE)>> } } }

\* the command lines: none, -o alone, one or two inputs, with and without -o
CliArgvs ==
    { NoArgv,
      [inputs |-> <<>>, output |-> [given |-> TRUE, path |-> <<"o">>]],
      [inputs |-> <<DirD>>, output |-> NoOutput],
      [inputs |-> <<DirS, DirD>>, output |-> [given |-> TRUE, path |-> <<"o">>]],
      [inputs |-> <<FileC>>, output |-> [given |-> TRUE, path |-> <<"o">>]],
      [inputs |-> <<DirD>>, output |-> [given |-> TRUE, path |-> <<"/","r","/","o",".","p","d","f">>]],
      [inputs |-> <<DirD>>, output |-> [given |-> TRUE, path |-> <<".">>]] }

\* answers to the prompt for the input: blank, a quoted directory, one file,
\* and two files with a space between them
TypedInputs ==
    { <<" "," ">>,
      <<"\"","/","d","\"">>,
      <<"/","d","/","a",".","p","n","g">>,
      <<"/","d","/","a",".","p","n","g"," ","/","d","/","b",".","J","P","G">> }

\* answers to the prompt for the output name
TypedOutputs == { <<>>, <<" ","o"," ">> }

InitCli ==
    /\ fs \in CliFileSystems
    /\ fs0 = fs
    /\ pc = "cli_start"
    /\ find_arg = NoArg
    /\ found = <<>>
    /\ cv_images = <<>>
    /\ cv_out = <<>>
    /\ max_size = DefaultMaxSize
    /\ output_path = <<>>
    /\ pdf_images = <<>>
    /\ idx = 0
    /\ result = NoResult
    /\ run_inputs = NoArg
    /\ run_out = NoOutput
    /\ images = <<>>
    /\ order_numbers = <<>>
    /\ candidate = <<>>
    /\ confirm = <<>>
    /\ message = "none"
    /\ ordered_images = <<>>
    /\ run_output = <<>>
    /\ run_result = NoResult
    /\ calls = 0
    /\ argv \in CliArgvs
    /\ typed_input = <<>>
    /\ typed_output = <<>>
    /\ exit_code = -1

NextCli ==
    \/ \E text \in TypedInputs, out \in TypedOutputs : CliInteractive(text, out)
    \/ CliArguments
    \/ RunLocate
    \/ \E choice \in MenuChoices : OrderMenu(choice)
    \/ \E entry \in OrderEntries : EnterOrder(entry)
    \/ Reprompt
    \/ \E answer \in ConfirmAnswers : ConfirmOrder(answer)
    \/ AfterConfirm
    \/ OutputGiven
    \/ \E choice \in MenuChoices : OutputMenu(choice)
    \/ \E text \in CustomPaths : EnterCustomPath(text)
    \/ ConvertEnter
    \/ ProcessImage
    \/ MakeParentDirs
    \/ SaveDocument
    \/ RunFinish
    \/ CliExit

SpecCli == InitCli /\ [][NextCli]_vars

---------------------------------------------------------------------------
(* Runs of the script image_to_pdf_converter.py *)

\* the command lines of the script: none, or inputs with and without -o
ScriptArgvs ==
    { NoArgv,
      [inputs |-> <<DirD>>, output |-> NoOutput],
      [inputs |-> <<DirS, DirD>>, output |-> [given |-> TRUE, path |-> <<"o">>]],
      [inputs |-> <<FileC>>, output |-> [given |-> TRUE, path |-> <<"o">>]],
      [inputs |-> <<DirD>>, output |-> [given |-> TRUE, path |-> <<"/","r","/","o",".","p","d","f">>]],
      [inputs |-> <<DirD>>, output |-> [given |-> TRUE, path |-> <<>>]] }

InitScript ==
    /\ fs \in CliFileSystems
    /\ fs0 = fs
    /\ pc = "script_start"
    /\ find_arg = NoArg
    /\ found = <<>>
    /\ cv_images = <<>>
    /\ cv_out = <<>>
    /\ max_size = DefaultMaxSize
    /\ output_path = <<>>
    /\ pdf_images = <<>>
    /\ idx = 0
    /\ result = NoResult
    /\ run_inputs = NoArg
    /\ run_out = NoOutput
    /\ images = <<>>
    /\ order_numbers = <<>>
    /\ candidate = <<>>
    /\ confirm = <<>>
    /\ message = "none"
    /\ ordered_images = <<>>
    /\ run_output = <<>>
    /\ run_result = NoResult
    /\ calls = 0
    /\ argv \in ScriptArgvs
    /\ typed_input = <<>>
    /\ typed_output = <<>>
    /\ exit_code = -1

NextScript ==
    \/ \E text \in TypedInputs, out \in TypedOutputs : ScriptInteractive(text, out)
    \/ ScriptArguments
    \/ ScriptRunLocate
    \/ \E choice \in MenuChoices : OrderMenu(choice)
    \/ \E entry \in OrderEntries : EnterOrder(entry)
    \/ Reprompt
    \/ \E answer \in ConfirmAnswers : ConfirmOrder(answer)
    \/ AfterConfirm
    \/ ScriptOutputGiven
    \/ \E choice \in MenuChoices : ScriptOutputMenu(choice)
    \/ \E text \in CustomPaths : ScriptEnterCustomPath(text)
    \/ ScriptConvert
    \/ ScriptRunFinish
    \/ ScriptExit

SpecScript == InitScript /\ [][NextScript]_vars

---------------------------------------------------------------------------
(* Properties of convert_to_pdf *)

\* the call stopped inside the loop, at the image of position idx
StoppedAtImage == pc = "cv_done" /\ idx \in DOMAIN cv_images

\* nothing lies at the path, and nothing on the way to it is a regular file
Absent(path) ==
    /\ Resolve(path) \notin DOMAIN fs0
    /\ \A a \in Ancestors(Resolve(path)) : a \in DOMAIN fs0 => fs0[a].kind = "dir"

\* C1: a successful convert_to_pdf writes a document with exactly len(images)
\* pages, and page i is the image at position i of the list: none is skipped,
\* repeated or reordered.
C1_PagesAreTheImagesInOrder ==
    (pc = "cv_done" /\ result.status = "true") =>
        /\ Resolve(result.written) \in DOMAIN fs
        /\ fs[Resolve(result.written)].type = "pdf"
        /\ Len(fs[Resolve(result.written)].pages) = Len(cv_images)
        /\ \A i \in DOMAIN cv_images :
              fs[Resolve(result.written)].pages[i].id = fs0[Resolve(cv_images[i])].id

\* C1 witness: three images, the second given twice, have been written
C1_Witness ==
    /\ pc = "cv_done" /\ result.status = "true"
    /\ cv_images = << <<"b",".","J","P","G">>, FileA, <<"b",".","J","P","G">> >>

C8_PdfSuffixIsAppended ==
    (pc = "cv_done" /\ result.status = "true") =>
        result.written = IF NeedsPdfSuffix(PathOf(cv_out))
                         THEN PathOf(cv_out) \o PdfSuffix
                         ELSE PathOf(cv_out)

\* C9: the file system changes only once every image of the list has been
\* processed, and a call that stops at an image returns failure with the file
\* system, the output path included, as it was before the call.
C9_NothingWrittenUnlessAllImagesProcessed ==
    /\ fs # fs0 => (idx = Len(cv_images) + 1 /\ Len(pdf_images) = Len(cv_images))
    /\ StoppedAtImage => (result.status = "false" /\ fs = fs0)

\* C9 witness: the third image failed after two were processed, with an older
\* document at the output path
C9_Witness ==
    /\ StoppedAtImage /\ idx = 3 /\ Len(pdf_images) = 2
    /\ cv_out = FileOld /\ FileOld \in DOMAIN fs
    /\ fs[FileOld].pages = OldPages

AllImagesReadable ==
    \A i \in DOMAIN cv_images :
        /\ Resolve(cv_images[i]) \in DOMAIN fs0
        /\ fs0[Resolve(cv_images[i])].type = "image"
        /\ fs0[Resolve(cv_images[i])].access

\* the directories on the way to the path that were missing when the call was made
MissingDirs(path) == {a \in Ancestors(Resolve(path)) : a \notin DOMAIN fs0}

\* the missing directories can be made: the nearest ancestor that exists is a
\* directory the process may write to
CanBeMade(path) ==
    \A a \in Ancestors(Resolve(path)) :
        (a \in DOMAIN fs0 /\ \E m \in MissingDirs(path) : Parent(m) = a)
            => (fs0[a].kind = "dir" /\ fs0[a].access)

C11_WitnessStopped ==
    /\ StoppedAtImage /\ idx = 2
    /\ cv_out = <<"/","n","/","m","/","o",".","p","d","f">>
    /\ <<"/","n">> \notin DOMAIN fs

\* a page of the given size is right for an image of size orig under the
\* bound: unchanged when no side is longer than the bound; otherwise the longer
\* side is the bound and the other is less than one pixel from its exact
\* scaled value bound * short / long, and at least 1
RightSize(page, orig, bound) ==
    IF orig[1] <= bound /\ orig[2] <= bound THEN page = orig
    ELSE IF orig[1] >= orig[2]
    THEN /\ page[1] = bound
         /\ 1 <= page[2] /\ page[2] <= bound
         /\ Abs(page[2] * orig[1] - bound * orig[2]) < orig[1]
    ELSE /\ page[2] = bound
         /\ 1 <= page[1] /\ page[1] <= bound
         /\ Abs(page[1] * orig[2] - bound * orig[1]) < orig[2]

\* C15: every page placed in the document has the size of its image when
\* max(w, h) <= max_size (the boundary max(w, h) = max_size included), and
\* otherwise its longer side is max_size and its shorter side the scaled value
\* within rounding, neither above max_size nor below 1.
C15_PagesAreWithinMaxSize ==
    /\ \A i \in DOMAIN pdf_images :
          RightSize(pdf_images[i].size, fs0[Resolve(cv_images[i])].size, max_size)
    /\ (pc = "cv_done" /\ result.status = "true") =>
          \A i \in DOMAIN cv_images :
              RightSize(fs[Resolve(result.written)].pages[i].size,
                        fs0[Resolve(cv_images[i])].size, max_size)

\* C15 witness: an image of 5 by 3 with max_size 2 is on a page of 2 by 1
C15_Witness ==
    /\ pc = "cv_done" /\ result.status = "true" /\ max_size = 2
    /\ fs0[FileA].size = <<5, 3>>
    /\ fs[Resolve(result.written)].pages[1].size = <<2, 1>>

\* C15 witness of the boundary: an image of 3 by 4 with max_size 4 keeps its size
C15_WitnessBoundary ==
    /\ pc = "cv_done" /\ result.status = "true" /\ max_size = 4
    /\ fs0[FileA].size = <<3, 4>>
    /\ fs[Resolve(result.written)].pages[1].size = <<3, 4>>

---------------------------------------------------------------------------
(* Properties of the ordering and of run *)

\* every number of 1..n occurs at exactly one position of p
IsPermutation(p, n) ==
    /\ Len(p) = n
    /\ \A k \in 1..n : Cardinality({i \in DOMAIN p : p[i] = k}) = 1

\* an entry of numbers has been checked
OrderChecked == pc \in {"order_rejected", "order_confirm"} /\ message # "ValueError"

\* C2: an entry whose length differs from N is rejected as a length mismatch
\* (also when its values are bad), an entry of length N with a repeated value or
\* a value outside 1..N is rejected as not a permutation, and exactly the
\* permutations of 1..N are accepted.
C2_OrderValidationOutcomes ==
    OrderChecked =>
        /\ Len(order_numbers) # Len(images) =>
              (message = "LengthMismatch" /\ pc = "order_rejected")
        /\ ( /\ Len(order_numbers) = Len(images)
             /\ \/ \E i, j \in DOMAIN order_numbers :
                      i # j /\ order_numbers[i] = order_numbers[j]
                \/ \E i \in DOMAIN order_numbers :
                      order_numbers[i] < 1 \/ order_numbers[i] > Len(images) )
           => (message = "NotAPermutation" /\ pc = "order_rejected")
        /\ IsPermutation(order_numbers, Len(images))
           <=> (message = "ok" /\ pc = "order_confirm")

\* C2 witness: over three images, an entry of two numbers that are out of range
\* and repeated has been rejected as a length mismatch
C2_Witness ==
    /\ pc = "order_rejected" /\ Len(images) = 3
    /\ order_numbers = <<0, 0>> /\ message = "LengthMismatch"

\* C3: applying a permutation p to N images gives N images, the one at position
\* i being images[p[i]-1] in Python's positions (images[p[i]] counting from 1).
C3_OrderIsApplied ==
    pc = "order_confirm" =>
        /\ Len(candidate) = Len(images)
        /\ \A i \in DOMAIN candidate : candidate[i] = images[order_numbers[i]]

\* C3 witness: the order 3 1 2 has been applied to three images
C3_Witness ==
    /\ pc = "order_confirm" /\ Len(images) = 3 /\ order_numbers = <<3, 1, 2>>
    /\ candidate = <<images[3], images[1], images[2]>>

\* C4: whatever the user answers, the list handed to convert_to_pdf holds every
\* located image exactly once and nothing else.
C4_HandedListIsARearrangement ==
    pc = "cv_enter" =>
        /\ Len(cv_images) = Cardinality(Range(images))
        /\ Range(cv_images) = Range(images)
        /\ \A x \in Range(images) : Cardinality({i \in DOMAIN cv_images : cv_images[i] = x}) = 1

\* C4 witness: three located images are handed over in a confirmed custom order
C4_Witness ==
    /\ pc = "cv_enter" /\ Len(images) = 3
    /\ cv_images = <<images[2], images[3], images[1]>>

\* C4 witness: a directory and a file in it were given, and the file is handed once
C4_WitnessOverlap ==
    /\ pc = "cv_enter" /\ ~run_inputs.single /\ run_inputs.items[1] = DirD
    /\ cv_images = <<FileB, FileA>>

\* the loop of _get_custom_order is running
InOrderLoop == pc \in {"order_entry", "order_rejected", "order_confirm", "order_answered"}

Yes == { <<"y">>, <<"y","e","s">> }

\* what holds in every state of the loop: run has neither failed nor got an
\* order; every prompt for an entry starts from the same state; an entry is up
\* for confirmation only when it is a permutation, applied to the images; after
\* y or yes the return is the step the loop can take
LoopRecovers ==
    /\ InOrderLoop => (run_result = Running /\ ordered_images = <<>>)
    /\ pc = "order_entry" =>
          (order_numbers = <<>> /\ candidate = <<>> /\ confirm = <<>> /\ message = "Order: ")
    /\ pc = "order_rejected" =>
          message \in {"ValueError", "LengthMismatch", "NotAPermutation"}
    /\ pc \in {"order_confirm", "order_answered"} =>
          /\ IsPermutation(order_numbers, Len(images))
          /\ candidate = [i \in DOMAIN order_numbers |-> images[order_numbers[i]]]
    /\ (pc = "order_answered" /\ confirm \in Yes) =>
          ENABLED (AfterConfirm /\ pc' = "out_decide")

\* C16: in the loop for a custom order every bad entry (not numbers, wrong
\* count, wrong set of values) and every declined confirmation leads back to
\* the prompt with nothing kept from the attempt, and to nothing else: no
\* exception and no failure leaves the loop; the loop returns only an order
\* that passed the checks and was confirmed with y or yes, and once such an
\* order is confirmed the next step of the loop is the return of that order.
C16_LoopRepromptsUntilConfirmed ==
    /\ []LoopRecovers
    /\ [][ InOrderLoop =>
             /\ InOrderLoop' \/ pc' = "out_decide"
             /\ pc = "order_rejected" => pc' = "order_entry"
             /\ pc' = "out_decide" <=> (pc = "order_answered" /\ confirm \in Yes)
             /\ pc' = "out_decide" =>
                   (ordered_images' = candidate /\ run_result' = Running)
         ]_vars

\* C16 witness: the order 2 1 over two images was confirmed with " YES"
C16_Witness ==
    /\ pc = "order_answered" /\ confirm = <<"y","e","s">>
    /\ order_numbers = <<2, 1>> /\ candidate = <<images[2], images[1]>>

\* C16 witnesses of the recoveries: an entry that is not numbers was rejected,
\* and a confirmation was declined
C16_WitnessRejected == pc = "order_rejected" /\ message = "ValueError"
C16_WitnessDeclined == pc = "order_answered" /\ confirm = <<"n">>

\* the steps of run in their order: locate, ordering, output path, assemble,
\* report and return
Stage(label) ==
    IF label = "run_start" THEN 1
    ELSE IF label \in {"order_menu", "order_entry", "order_rejected", "order_confirm",
                       "order_answered"} THEN 2
    ELSE IF label \in {"out_decide", "out_custom"} THEN 3
    ELSE IF label \in {"cv_enter", "cv_loop", "cv_save", "cv_done"} THEN 4
    ELSE 5

\* what holds in every state of a run
StepsInOrder ==
    /\ (run_result.status # "none" /\ images = <<>>) =>
          /\ pc = "run_done" /\ run_result.status = "false"
          /\ calls = 0 /\ result = NoResult
          /\ message = "none" /\ ordered_images = <<>> /\ run_output = <<>>
    /\ calls = IF Stage(pc) = 4 \/ result # NoResult THEN 1 ELSE 0
    /\ pc = "cv_enter" =>
          /\ ordered_images # <<>> /\ cv_images = ordered_images
          /\ run_output # <<>> /\ cv_out = run_output
    /\ (pc = "run_done" /\ images # <<>> /\ run_result.status \in {"true", "false"}) =>
          (calls = 1 /\ result.status = run_result.status)
    /\ run_result.status = "true" => (result.status = "true" /\ pc = "run_done")

C13_WitnessEmpty ==
    /\ pc = "run_done" /\ images = <<>> /\ run_result.status = "false" /\ calls = 0

\* C17: the .pdf rule of convert_to_pdf changes nothing on a path the rule of
\* run has been applied to, so convert_to_pdf writes to the path run holds, and
\* after a success run reads the size of the file that was written: its lookup
\* never fails for want of the file.
C17_RunAndConvertAgreeOnThePath ==
    /\ pc = "cv_enter" =>
          (HasName(PathOf(cv_out)) /\ EnsurePdfSuffix(PathOf(cv_out)) = run_output)
    /\ pc \in {"cv_loop", "cv_save"} => output_path = run_output
    /\ result.status # "raised"
    /\ result.status = "true" =>
          /\ result.written = run_output
          /\ Exists(run_output) /\ fs[Resolve(run_output)].type = "pdf"
          /\ Len(fs[Resolve(run_output)].pages) = Len(ordered_images)
    /\ ~(run_result.status = "raised" /\ run_result.class = "FileNotFoundError")
    /\ run_result.status = "true" =>
          (result.status = "true" /\ run_result.written = result.written)

\* C17 witness: run was given /d/scan.v2, and reported the size of /d/scan.pdf,
\* which convert_to_pdf wrote
C17_Witness ==
    /\ pc = "run_done" /\ run_result.status = "true"
    /\ run_out = [given |-> TRUE, path |-> <<"/","d","/","s","c","a","n",".","v","2">>]
    /\ run_result.written = <<"/","d","/","s","c","a","n",".","p","d","f">>
    /\ fs[run_result.written].type = "pdf"

\* C17 witness of a prompted path: the custom path was left empty and the
\* document is .pdf.pdf in the working directory
C17_WitnessPrompted ==
    /\ pc = "run_done" /\ run_result.status = "true" /\ ~run_out.given
    /\ run_result.written = <<".","p","d","f",".","p","d","f">>

---------------------------------------------------------------------------
(* Properties of the entry points *)

\* the document of the conversion lies at the path run passed on
OutputWritten ==
    /\ result.status = "true"
    /\ Exists(PathOf(run_output))
    /\ fs[Resolve(PathOf(run_output))].type = "pdf"

\* C12: the process exits with 0 exactly when the conversion succeeded and the
\* output file exists, and with 1 otherwise: after a blank answer to the input
\* prompt, when no supported image was found, and when the conversion failed;
\* it never exits with 0 when no output file was written.
C12_ExitCodeReflectsOutcome ==
    pc = "exited" =>
        /\ exit_code \in {0, 1}
        /\ exit_code = 0 <=> OutputWritten
        /\ (argv.inputs = <<>> /\ Strip(typed_input) = <<>>) => exit_code = 1
        /\ (run_result.status # "none" /\ images = <<>>) => exit_code = 1
        /\ result.status = "false" => exit_code = 1

\* C12 for cli.main: the script aside, a run of the package's entry point that
\* ended with 0 after a conversion, and one that ended with 1 after a failure
C12_ReachedSuccess ==
    /\ pc = "exited" /\ exit_code = 0 /\ OutputWritten /\ Len(images) = 3
C12_ReachedFailure ==
    /\ pc = "exited" /\ exit_code = 1 /\ result.status = "false"
    /\ result.class = "PermissionDenied"

\* the images one entered path stands for: the file itself, or the images
\* directly in the directory
ImagesAt(word) ==
    LET q == Resolve(PathOf(word)) IN
    IF q \notin DOMAIN fs THEN {}
    ELSE IF fs[q].kind = "dir" THEN ImagesDirectlyIn(q)
    ELSE IF HasSupportedExtension(Name(q)) THEN {q}
    ELSE {}

\* the paths in an answer to the input prompt: its words, quotes removed
EnteredPaths(text) ==
    LET words == SplitWords(text)
    IN  { StripChar(StripChar(words[i], "\""), "'") : i \in DOMAIN words }

\* C14: started without positional inputs, the answer to the input prompt is
\* taken as one path or as a list of paths separated by spaces, each located on
\* its own; and after an empty answer to the output prompt the document is
\* named converted_images.pdf.
C14_InteractiveInputsAndDefaultName ==
    (argv.inputs = <<>> /\ Strip(typed_input) # <<>>) =>
        /\ run_result.status # "none" =>
              {Resolve(PathOf(images[i])) : i \in DOMAIN images}
                  = UNION {ImagesAt(word) : word \in EnteredPaths(typed_input)}
        /\ (Strip(typed_output) = <<>> /\ result.status = "true") =>
              Name(PathOf(result.written)) = DefaultName

\* C14 for the script, which splits the answer: two files entered with a space
\* between them were both located and written to converted_images.pdf
C14_ReachedList ==
    /\ pc = "exited" /\ Len(SplitWords(typed_input)) = 2 /\ Len(images) = 2
    /\ Strip(typed_output) = <<>> /\ result.status = "true"

====
